---- MODULE Spec2Model ----
(***************************************************************************)
(* Model of marvin's Bot (src/src/marvin/bots.py): the say() iteration     *)
(* loop, the action parser inside _process_ai_response, the plugin         *)
(* dispatcher _run_plugin and the role mapping of _call_llm.               *)
(*                                                                         *)
(* A text is a sequence of lexemes (strings); concatenation of texts is    *)
(* \o and "text t contains s" is "s is a contiguous run of t".             *)
(***************************************************************************)
EXTENDS Naturals, Sequences, FiniteSets, TLC

\* ------------------------------------------------------------------ bounds
\* marvin.settings.bot_max_iterations: a configured positive integer.
MaxIterations == 2
\* Number of say() invocations on the agent; call c is the c-th one started.
NumCalls == 2
\* Tokens one message costs in the History Store's token count.
MsgTokens == 1000

\* The budget say() passes to History.get_messages.
HistoryMaxTokens == 2500

Calls == 1..NumCalls

\* ------------------------------------------------------------------ values
\* Python's None as a list entry (a value that is no Message).
PyNone == [none |-> TRUE]
\* An unset optional field of a Message.
Unset == "<unset>"
\* "no exception"
NoError == "<none>"

DEFAULT_NAME == "Marvin"

Message(role, content, name) == [role |-> role, content |-> content, name |-> name]

Roles == {"system", "user", "ai"}

\* ------------------------------------------------------------------ texts
Contains(text, piece) ==
  \E i \in 1..(Len(text) + 1) :
    /\ i + Len(piece) - 1 <= Len(text)
    /\ SubSeq(text, i, i + Len(piece) - 1) = piece

RECURSIVE Join(_, _)
\* sep.join(parts) for a sequence of texts
Join(parts, sep) ==
  IF Len(parts) = 0 THEN <<>>
  ELSE IF Len(parts) = 1 THEN parts[1]
  ELSE parts[1] \o sep \o Join(Tail(parts), sep)

\* Lexemes of a model response.
OPEN == "{\"action\": \"run-plugin\""
CLOSE == "}"
NL == "\n"
NameTok(n) == ", \"name\": \"" \o n \o "\""
InputsTok(v) == ", \"inputs\": " \o v
DictInputs == "{\"q\": \"2+2\"}"
ListInputs == "[1]"
BraceProse == "as in f(x) = {x}"

PluginNames == {"calculator", "search"}
InputValues == {DictInputs, ListInputs}
NameToks == {NameTok(n) : n \in PluginNames}
InputsToks == {InputsTok(v) : v \in InputValues}

\* The lexeme ends with the character "}".
EndsWithBrace(tok) == tok \in {CLOSE, BraceProse, InputsTok(DictInputs)}

\* A sentinel that happens to hold the action pattern.
MaxIterationsResponseWithAction ==
  <<"Error: \"", "Max iterations reached.", OPEN, CLOSE>>

\* The sentinel say() substitutes for the model output past the cap.
MaxIterationsResponse ==
  <<"Error: \"", "Max iterations reached.", " Please try again.\"">>

\* ------------------------------------------------------------------ parser
\* RegexSearch with a lazy quantifier, '.*?}': the match ends at the first "}"
\* after the opening.
RegexSearchLazy(text, dotall) ==
  LET reach(i) == {j \in (i + 1)..Len(text) :
                      /\ EndsWithBrace(text[j])
                      /\ dotall \/ \A k \in (i + 1)..j : text[k] # NL}
      starts == {i \in 1..Len(text) : text[i] = OPEN /\ reach(i) # {}}
  IN IF starts = {} THEN <<0, 0>>
     ELSE LET i == CHOOSE a \in starts : \A b \in starts : a <= b
              j == CHOOSE a \in reach(i) : \A b \in reach(i) : a <= b
          IN <<i, j>>

\* re.search of '({\s*"action":\s*"run-plugin".*})': the leftmost opening from
\* which a match exists, extended greedily to the last "}" the dot can reach;
\* without DOTALL the dot does not cross a newline.  <<0, 0>> when no match.
RegexSearch(text, dotall) ==
  LET reach(i) == {j \in (i + 1)..Len(text) :
                      /\ EndsWithBrace(text[j])
                      /\ dotall \/ \A k \in (i + 1)..j : text[k] # NL}
      starts == {i \in 1..Len(text) : text[i] = OPEN /\ reach(i) # {}}
  IN IF starts = {} THEN <<0, 0>>
     ELSE LET i == CHOOSE a \in starts : \A b \in starts : a <= b
              j == CHOOSE a \in reach(i) : \A b \in reach(i) : a >= b
          IN <<i, j>>

\* plugin_regex.search(response) with re.DOTALL
PluginRegexSearch(text) == RegexSearch(text, TRUE)

\* match.group(1)
MatchGroup(text) ==
  LET m == PluginRegexSearch(text) IN SubSeq(text, m[1], m[2])

\* json.loads of a span: an object is the opening, then fields and whitespace,
\* then one closing brace; anything else is a JSONDecodeError.  A repeated key
\* keeps its last value.  The object is a function from its keys to values.
JsonLoads(span) ==
  LET n == Len(span)
      wellFormed ==
        /\ n >= 2
        /\ span[1] = OPEN
        /\ span[n] = CLOSE
        /\ \A k \in 2..(n - 1) : span[k] \in NameToks \cup InputsToks \cup {NL}
      nameIdx == {k \in 1..n : span[k] \in NameToks}
      inputsIdx == {k \in 1..n : span[k] \in InputsToks}
      last(S) == CHOOSE a \in S : \A b \in S : a >= b
      keys == {"action"} \cup (IF nameIdx = {} THEN {} ELSE {"name"})
                         \cup (IF inputsIdx = {} THEN {} ELSE {"inputs"})
      value(key) ==
        IF key = "action" THEN "run-plugin"
        ELSE IF key = "name"
          THEN CHOOSE p \in PluginNames : NameTok(p) = span[last(nameIdx)]
          ELSE CHOOSE v \in InputValues : InputsTok(v) = span[last(inputsIdx)]
  IN IF wellFormed
       THEN [ok |-> TRUE, obj |-> [key \in keys |-> value(key)], exc |-> NoError]
       ELSE [ok |-> FALSE, obj |-> << >>, exc |-> "JSONDecodeError"]

\* ParseAction with the slip of reading the inputs by .get("inputs", {}), so
\* that a payload without inputs still counts as an action.
ParseActionLenient(text) ==
  IF PluginRegexSearch(text) = <<0, 0>>
    THEN [kind |-> "none", name |-> Unset, inputs |-> Unset, exc |-> NoError]
  ELSE LET js == JsonLoads(MatchGroup(text)) IN
    IF ~js.ok
      THEN [kind |-> "error", name |-> Unset, inputs |-> Unset, exc |-> js.exc]
    ELSE IF "name" \notin DOMAIN js.obj
      THEN [kind |-> "error", name |-> Unset, inputs |-> Unset, exc |-> "'name'"]
    ELSE [kind |-> "action", name |-> js.obj["name"],
          inputs |-> IF "inputs" \in DOMAIN js.obj THEN js.obj["inputs"]
                     ELSE DictInputs,
          exc |-> NoError]

\* Lines 156-165: the outcome of scanning and decoding one response.
\*   kind "none": no pattern; "action": name and inputs read;
\*   "error": an exception raised at lines 161-165, exc is its text.
ParseAction(text) ==
  IF PluginRegexSearch(text) = <<0, 0>>
    THEN [kind |-> "none", name |-> Unset, inputs |-> Unset, exc |-> NoError]
  ELSE LET js == JsonLoads(MatchGroup(text)) IN
    IF ~js.ok
      THEN [kind |-> "error", name |-> Unset, inputs |-> Unset, exc |-> js.exc]
    ELSE IF "name" \notin DOMAIN js.obj
      THEN [kind |-> "error", name |-> Unset, inputs |-> Unset, exc |-> "'name'"]
    ELSE IF "inputs" \notin DOMAIN js.obj
      THEN [kind |-> "error", name |-> Unset, inputs |-> Unset, exc |-> "'inputs'"]
    ELSE [kind |-> "action", name |-> js.obj["name"],
          inputs |-> js.obj["inputs"], exc |-> NoError]

\* ------------------------------------------------------------------ agent
\* A plugin: its identity, its name, and whether run() returns a coroutine
\* that _run_plugin awaits.
Plugin(id, name, coro) == [id |-> id, name |-> name, coro |-> coro]

Calculator == Plugin("Calculator", "calculator", FALSE)
Search == Plugin("DuckDuckGo", "search", TRUE)
\* A second plugin configured under the name of the first.
Calculator2 == Plugin("Calculator2", "calculator", TRUE)

\* The plugin lists an agent is constructed with.
PluginSets == {<< >>, <<Calculator, Search>>, <<Calculator, Calculator2>>}

\* What a plugin's run can do: return a text or raise an exception.
PluginResults == {[raised |-> FALSE, text |-> "4"],
                  [raised |-> TRUE, text |-> "division by zero"]}
\* The coroutine run() returned has not ended yet.
Pending == [raised |-> FALSE, text |-> "<pending>"]

\* What the History Store holds when the agent is constructed: nothing, or a
\* message stored with a role the adapter does not know.
InitialStores == {<< >>, <<Message("function", <<"lookup()">>, Unset)>>}

\* The texts the language model returns.
Responses == {
  <<"The answer is 4.">>,
  <<"Let me compute.", OPEN, NameTok("calculator"), InputsTok(DictInputs), CLOSE>>,
  <<OPEN, NL, NameTok("search"), InputsTok(DictInputs), CLOSE>>,
  <<OPEN, NameTok("calculator"), CLOSE>>,
  <<OPEN, InputsTok(DictInputs), CLOSE>>,
  <<OPEN, NameTok("calculator"), InputsTok(DictInputs)>>,
  <<OPEN, NameTok("calculator")>>,
  <<OPEN, NameTok("calculator"), InputsTok(DictInputs), CLOSE, BraceProse>>,
  <<OPEN, NameTok("search"), InputsTok(DictInputs), CLOSE,
    OPEN, NameTok("search"), InputsTok(DictInputs), CLOSE>>,
  <<OPEN, NameTok("calculator"), InputsTok(ListInputs), CLOSE>>,
  <<BraceProse, OPEN, NameTok("search")>> }

\* Every text _process_ai_response is handed: a model response or the sentinel.
Texts == Responses \cup {MaxIterationsResponse}

\* The parse of each of these texts, computed once.
ParseTable == [t \in Texts |-> ParseAction(t)]

\* The parse of the response of an iteration.
Parsed(text) == ParseTable[text]

\* The text the c-th say() is called with.
UserText(c) == <<"question", ToString(c)>>

\* ------------------------------------------------------------------ state
VARIABLES
  plugins,    \* self.plugins
  store,      \* the History Store's messages, in arrival order
  pc,         \* where each say() call stands
  messages,   \* say()'s local list `messages`
  counter,    \* say()'s local `counter`
  finished,   \* say()'s local `finished`
  response,   \* say()'s local `response`
  ret,        \* the Message say() returned
  err,        \* the exception say() raised
  writes,     \* the messages this call passed to history.add_message
  llmCalls,   \* the agenerate calls this turn made
  runLog,     \* the plugin.run invocations this turn made: plugin and inputs
  bot,        \* the agent's name, personality, instructions and plugins
  bot_config, \* the BotConfig to_bot_config returned
  loaded,     \* the agent from_bot_config returned
  probe,      \* the pieces of a text handed to the action parser
  parsed      \* what the action parser made of that text

vars == <<plugins, store, pc, messages, counter, finished, response, ret, err,
          writes, llmCalls, runLog, bot, bot_config, loaded, probe, parsed>>

\* What say() reads and writes.
sayVars == <<plugins, store, pc, messages, counter, finished, response, ret,
             err, writes, llmCalls, runLog>>

\* --------------------------------------------------------- agent fields
DEFAULT_PERSONALITY == "A helpful assistant that is clever, witty, and fun."
DEFAULT_INSTRUCTIONS == "Respond to the user, always in character ..."
VisitURL == Plugin("VisitURL", "visit-url", TRUE)
DEFAULT_PLUGINS == <<VisitURL, Search, Calculator>>

\* A constructor argument that was given; PyNone is one that was not.
Given(v) == [none |-> FALSE, value |-> v]

\* Lines 63-67.
default_name(v) == IF v = PyNone THEN DEFAULT_NAME ELSE v.value

\* Lines 69-73.
default_personality(v) == IF v = PyNone THEN DEFAULT_PERSONALITY ELSE v.value

\* Lines 75-79.
default_instructions(v) == IF v = PyNone THEN DEFAULT_INSTRUCTIONS ELSE v.value

\* Lines 81-85.
default_plugins(v) == IF v = PyNone THEN DEFAULT_PLUGINS ELSE v.value

\* Bot(name=..., personality=..., instructions=..., plugins=...): the fields
\* after their validators.
NewBot(name, personality, instructions, plugs) ==
  [name |-> default_name(name),
   personality |-> default_personality(personality),
   instructions |-> default_instructions(instructions),
   plugins |-> default_plugins(plugs)]

\* Nothing was parsed, converted or loaded.
NoParse ==
  [span |-> <<0, 0>>,
   outcome |-> [kind |-> "unparsed", name |-> Unset, inputs |-> Unset,
                exc |-> NoError]]

NoMessage == Message(Unset, << >>, Unset)

Init ==
  /\ plugins \in PluginSets
  /\ store \in InitialStores
  /\ pc = [c \in Calls |-> "idle"]
  /\ messages = [c \in Calls |-> << >>]
  /\ counter = [c \in Calls |-> 0]
  /\ finished = [c \in Calls |-> FALSE]
  /\ response = [c \in Calls |-> << >>]
  /\ ret = [c \in Calls |-> NoMessage]
  /\ err = [c \in Calls |-> NoError]
  /\ writes = [c \in Calls |-> << >>]
  /\ llmCalls = [c \in Calls |-> 0]
  /\ runLog = [c \in Calls |-> << >>]
  /\ bot = NewBot(PyNone, PyNone, PyNone, Given(plugins))
  /\ bot_config = PyNone
  /\ loaded = PyNone
  /\ probe = << >>
  /\ parsed = NoParse

\* ------------------------------------------------------------------ history
\* History.add_message: append-only, arrival order.
AddMessage(st, m) == Append(st, m)

\* History.get_messages(max_tokens): the longest recent run of messages that
\* fits the budget, the oldest dropped first.
GetMessages(st, maxTokens) ==
  LET fits == {n \in 0..Len(st) : n * MsgTokens <= maxTokens}
      n == CHOOSE a \in fits : \A b \in fits : a >= b
  IN SubSeq(st, Len(st) - n + 1, Len(st))

\* _get_history
GetHistory == GetMessages(store, HistoryMaxTokens)

\* ------------------------------------------------------------------ prompt
\* _get_bot_instructions
GetBotInstructions ==
  Message("system",
          <<"Today's date: ", "<date>", "Your name: ", DEFAULT_NAME,
            "Your personality: ", "<personality>",
            "Your instructions: ", "<instructions>">>,
          Unset)

\* _get_plugin_instructions: a Message when there are plugins; otherwise the
\* function falls off its end and returns None.
GetPluginInstructions ==
  IF Len(plugins) > 0
    THEN Message("system",
                 <<"You have access to plugins ... must be one of [">>
                 \o Join([i \in 1..Len(plugins) |-> <<plugins[i].name>>], <<", ">>)
                 \o <<"]> ...", "You have access to the following plugins:">>
                 \o Join([i \in 1..Len(plugins) |->
                            <<plugins[i].id, " full description">>], <<"\n\n">>),
                 Unset)
    ELSE PyNone

\* Line 130: the list say() assembles.
AssembleMessages(history, user_message) ==
  <<GetBotInstructions, GetPluginInstructions>> \o history \o <<user_message>>

\* ------------------------------------------------------------------ adapter
\* _call_llm, lines 287-295: the exception the role mapping raises on the
\* first entry it cannot map, NoError when every entry maps.  Reading .role of
\* None is an AttributeError; a role outside system/ai/user is the ValueError.
RoleMappingError(msgs) ==
  LET bad == {i \in 1..Len(msgs) :
                \/ msgs[i] = PyNone
                \/ msgs[i].role \notin Roles}
  IN IF bad = {} THEN NoError
     ELSE LET i == CHOOSE a \in bad : \A b \in bad : a <= b
          IN IF msgs[i] = PyNone THEN "AttributeError" ELSE "ValueError"

\* ------------------------------------------------------------------ dispatcher
\* FindPlugin that takes the last plugin carrying the name, as a lookup in a
\* dict keyed by name would.
FindPluginLast(name) ==
  LET hits == {i \in 1..Len(plugins) : plugins[i].name = name}
  IN IF hits = {} THEN 0 ELSE CHOOSE a \in hits : \A b \in hits : a >= b

\* Line 207: the index of the first plugin carrying the name, 0 when none does.
FindPlugin(name) ==
  LET hits == {i \in 1..Len(plugins) : plugins[i].name = name}
  IN IF hits = {} THEN 0 ELSE CHOOSE a \in hits : \A b \in hits : a <= b

\* NotFoundText with the slip of leaving out the quotes around the name.
NotFoundTextUnquoted(name) == <<"Plugin " \o name \o " not found.">>

\* Line 209
NotFoundText(name) == <<"Plugin \"" \o name \o "\" not found.">>

\* Line 220
PluginErrorText(exc) ==
  <<"Plugin encountered an error. Try again? Error message: ", exc>>

\* plugin.run(**plugin_inputs) needs a mapping to unpack.
IsMapping(inputs) == inputs = DictInputs

\* PluginOutcomeText with the slip of passing the exception's text on as if it
\* were the plugin's answer.
PluginOutcomeTextBare(result) == <<result.text>>

\* Lines 210-220: the text _run_plugin returns for what run() did.
PluginOutcomeText(result) ==
  IF result.raised THEN PluginErrorText(result.text) ELSE <<result.text>>

\* PluginMessages with the slip of leaving out the model's own text.
PluginMessagesOutputOnly(resp, plugin_output) ==
  << Message("system",
             <<"Plugin output: ">> \o plugin_output
             \o <<"\n\nNote: remember your personality when synthesizing a response.">>,
             Unset) >>

\* Lines 178-187: the two messages of an iteration that dispatched an action.
PluginMessages(resp, plugin_output) ==
  << Message("ai", resp, Unset),
     Message("system",
             <<"Plugin output: ">> \o plugin_output
             \o <<"\n\nNote: remember your personality when synthesizing a response.">>,
             Unset) >>

\* Lines 189-197: the message of an iteration whose action did not decode.
ErrorMessages(resp, exc) ==
  << Message("system", <<"Error running plugin", ": ">> \o resp \o <<"\n\n", exc>>,
             "plugin") >>

\* FinalMessage that stores only the head of the text.
FinalMessageHeadOnly(resp) == Message("ai", <<resp[1]>>, Unset)

\* Lines 199-202: the message of an iteration without an action.
FinalMessage(resp) == Message("ai", resp, Unset)

\* ReturnedMessage with the slip of returning only the head of the text.
ReturnedHeadOnly(resp) == Message("ai", <<resp[1]>>, DEFAULT_NAME)

\* Line 148
ReturnedMessage(resp) == Message("ai", resp, DEFAULT_NAME)

\* ------------------------------------------------------------------ say()
\* The c-th call may start once the calls before it have started.
InOrder(c) == IF c = 1 THEN TRUE ELSE pc[c - 1] # "idle"

\* No other call is between its start and its end.
Alone(c) == \A d \in Calls \ {c} : pc[d] \in {"idle", "done", "failed"}

\* SayAssemble that reads the history after the user message was stored.
SayAssembleLate(c) ==
  /\ pc[c] = "idle"
  /\ InOrder(c)
  /\ LET user_message == Message("user", UserText(c), Unset) IN
       messages' = [messages EXCEPT ![c] =
          AssembleMessages(
            GetMessages(AddMessage(store, user_message), HistoryMaxTokens),
            user_message)]
  /\ pc' = [pc EXCEPT ![c] = "assembled"]
  /\ UNCHANGED <<bot, bot_config, loaded, probe, parsed, plugins, store,
                 counter, finished, response, ret, err, writes, llmCalls,
                 runLog>>

\* SayAssemble behind a lock that say() would hold from its start to its end.
SayAssembleLocked(c) ==
  /\ pc[c] = "idle"
  /\ InOrder(c)
  /\ Alone(c)
  /\ messages' = [messages EXCEPT ![c] =
        AssembleMessages(GetHistory, Message("user", UserText(c), Unset))]
  /\ pc' = [pc EXCEPT ![c] = "assembled"]
  /\ UNCHANGED <<bot, bot_config, loaded, probe, parsed, plugins, store,
                 counter, finished, response, ret, err, writes, llmCalls,
                 runLog>>

\* Lines 125-130: build the working list from the prompt, the bounded history
\* and the user message.
SayAssemble(c) ==
  /\ pc[c] = "idle"
  /\ InOrder(c)
  /\ messages' = [messages EXCEPT ![c] =
        AssembleMessages(GetHistory, Message("user", UserText(c), Unset))]
  /\ pc' = [pc EXCEPT ![c] = "assembled"]
  /\ UNCHANGED <<bot, bot_config, loaded, probe, parsed, plugins, store,
                 counter, finished, response, ret, err, writes, llmCalls,
                 runLog>>

\* SayAddUserMessage that leaves the write of line 133 to the end of the turn.
SayAddUserMessageDeferred(c) ==
  /\ pc[c] = "assembled"
  /\ finished' = [finished EXCEPT ![c] = FALSE]
  /\ counter' = [counter EXCEPT ![c] = 0]
  /\ pc' = [pc EXCEPT ![c] = "loop"]
  /\ UNCHANGED <<bot, bot_config, loaded, probe, parsed, plugins, store,
                 messages, response, ret, err, writes, llmCalls, runLog>>

\* Lines 133-136: persist the user message, initialise the loop.
SayAddUserMessage(c) ==
  /\ pc[c] = "assembled"
  /\ LET user_message == messages[c][Len(messages[c])] IN
       /\ store' = AddMessage(store, user_message)
       /\ writes' = [writes EXCEPT ![c] = Append(@, user_message)]
  /\ finished' = [finished EXCEPT ![c] = FALSE]
  /\ counter' = [counter EXCEPT ![c] = 0]
  /\ pc' = [pc EXCEPT ![c] = "loop"]
  /\ UNCHANGED <<bot, bot_config, loaded, probe, parsed, plugins, messages,
                 response, ret, err, llmCalls, runLog>>

\* What leaves say() with it: the locals and the per-turn logs are dropped.
DropTurn(c) ==
  /\ messages' = [messages EXCEPT ![c] = << >>]
  /\ counter' = [counter EXCEPT ![c] = 0]
  /\ response' = [response EXCEPT ![c] = << >>]
  /\ llmCalls' = [llmCalls EXCEPT ![c] = 0]
  /\ runLog' = [runLog EXCEPT ![c] = << >>]

\* IterateCapped with the slip of calling the model past the cap as well.
IterateUncapped(c) ==
  /\ pc[c] = "loop"
  /\ ~finished[c]
  /\ counter[c] + 1 > MaxIterations
  /\ counter[c] <= MaxIterations + 2
  /\ counter' = [counter EXCEPT ![c] = @ + 1]
  /\ llmCalls' = [llmCalls EXCEPT ![c] = @ + 1]
  /\ pc' = [pc EXCEPT ![c] = "llm"]
  /\ UNCHANGED <<bot, bot_config, loaded, probe, parsed, plugins, store,
                 messages, finished, response, ret, err, writes, runLog>>

\* Lines 138-141: an iteration past the cap takes the sentinel as the output.
IterateCapped(c) ==
  /\ pc[c] = "loop"
  /\ ~finished[c]
  /\ counter[c] + 1 > MaxIterations
  /\ counter' = [counter EXCEPT ![c] = @ + 1]
  /\ response' = [response EXCEPT ![c] = MaxIterationsResponse]
  /\ pc' = [pc EXCEPT ![c] = "process"]
  /\ UNCHANGED <<bot, bot_config, loaded, probe, parsed, plugins, store,
                 messages, finished, ret, err, writes, llmCalls, runLog>>

\* Lines 138-143, 285-300: an iteration within the cap maps the roles and
\* sends the list to the model.
IterateCallLlm(c) ==
  /\ pc[c] = "loop"
  /\ ~finished[c]
  /\ counter[c] + 1 <= MaxIterations
  /\ RoleMappingError(messages[c]) = NoError
  /\ counter' = [counter EXCEPT ![c] = @ + 1]
  /\ llmCalls' = [llmCalls EXCEPT ![c] = @ + 1]
  /\ pc' = [pc EXCEPT ![c] = "llm"]
  /\ UNCHANGED <<bot, bot_config, loaded, probe, parsed, plugins, store,
                 messages, finished, response, ret, err, writes, runLog>>

\* IterateCallLlmRaises that takes the turn's user message back out of the
\* store before the exception leaves say().
IterateCallLlmRaisesRollback(c) ==
  /\ pc[c] = "loop"
  /\ ~finished[c]
  /\ counter[c] + 1 <= MaxIterations
  /\ RoleMappingError(messages[c]) # NoError
  /\ err' = [err EXCEPT ![c] = RoleMappingError(messages[c])]
  /\ pc' = [pc EXCEPT ![c] = "failed"]
  /\ store' = SubSeq(store, 1, Len(store) - 1)
  /\ writes' = [writes EXCEPT ![c] = << >>]
  /\ DropTurn(c)
  /\ UNCHANGED <<bot, bot_config, loaded, probe, parsed, plugins, finished,
                 ret>>

\* Lines 138-143, 285-295: the role mapping raises; the exception leaves
\* say().
IterateCallLlmRaises(c) ==
  /\ pc[c] = "loop"
  /\ ~finished[c]
  /\ counter[c] + 1 <= MaxIterations
  /\ RoleMappingError(messages[c]) # NoError
  /\ err' = [err EXCEPT ![c] = RoleMappingError(messages[c])]
  /\ pc' = [pc EXCEPT ![c] = "failed"]
  /\ DropTurn(c)
  /\ UNCHANGED <<bot, bot_config, loaded, probe, parsed, plugins, store,
                 finished, ret, writes>>

\* Lines 300-303: the model's text arrives.
LlmReturns(c) ==
  /\ pc[c] = "llm"
  /\ \E r \in Responses : response' = [response EXCEPT ![c] = r]
  /\ pc' = [pc EXCEPT ![c] = "process"]
  /\ UNCHANGED <<bot, bot_config, loaded, probe, parsed, plugins, store,
                 messages, counter, finished, ret, err, writes, llmCalls,
                 runLog>>

\* Lines 144-145 with 199-204, then 147-148: no action in the response; it is
\* persisted and returned.
ProcessFinal(c) ==
  /\ pc[c] = "process"
  /\ Parsed(response[c]).kind = "none"
  /\ store' = AddMessage(store, FinalMessage(response[c]))
  /\ writes' = [writes EXCEPT ![c] = Append(@, FinalMessage(response[c]))]
  /\ finished' = [finished EXCEPT ![c] = TRUE]
  /\ ret' = [ret EXCEPT ![c] = ReturnedMessage(response[c])]
  /\ pc' = [pc EXCEPT ![c] = "done"]
  /\ DropTurn(c)
  /\ UNCHANGED <<bot, bot_config, loaded, probe, parsed, plugins, err>>

\* Continue on a working list kept on the agent and shared by the calls
\* that are running.
ContinueShared(c, ai_messages) ==
  /\ messages' = [d \in Calls |->
        IF pc[d] \in {"idle", "done", "failed"} THEN messages[d]
        ELSE messages[d] \o ai_messages]
  /\ finished' = [finished EXCEPT ![c] = FALSE]
  /\ pc' = [pc EXCEPT ![c] = "loop"]
  /\ UNCHANGED <<bot, bot_config, loaded, probe, parsed, plugins, store,
                 counter, response, ret, err, writes, llmCalls>>

\* Continue with the slip of persisting what the iteration produced.
ContinuePersisting(c, ai_messages) ==
  /\ messages' = [messages EXCEPT ![c] = @ \o ai_messages]
  /\ store' = store \o ai_messages
  /\ writes' = [writes EXCEPT ![c] = @ \o ai_messages]
  /\ finished' = [finished EXCEPT ![c] = FALSE]
  /\ pc' = [pc EXCEPT ![c] = "loop"]
  /\ UNCHANGED <<bot, bot_config, loaded, probe, parsed, plugins, counter,
                 response, ret, err, llmCalls>>

\* Lines 144-145 of an iteration that did not finish: the new messages join
\* the working list only, and the loop goes on.
Continue(c, ai_messages) ==
  /\ messages' = [messages EXCEPT ![c] = @ \o ai_messages]
  /\ finished' = [finished EXCEPT ![c] = FALSE]
  /\ pc' = [pc EXCEPT ![c] = "loop"]
  /\ UNCHANGED <<bot, bot_config, loaded, probe, parsed, plugins, store,
                 counter, response, ret, err, writes, llmCalls>>

\* Lines 156-161, 189-197: the action does not decode or lacks a key.
ProcessMalformed(c) ==
  /\ pc[c] = "process"
  /\ Parsed(response[c]).kind = "error"
  /\ Continue(c, ErrorMessages(response[c], Parsed(response[c]).exc))
  /\ UNCHANGED runLog

\* Lines 172-187, 206-209: the named plugin is not configured.
ProcessNotFound(c) ==
  /\ pc[c] = "process"
  /\ LET a == Parsed(response[c]) IN
       /\ a.kind = "action"
       /\ FindPlugin(a.name) = 0
       /\ Continue(c, PluginMessages(response[c], NotFoundText(a.name)))
  /\ UNCHANGED runLog

\* Lines 172-187, 210-211, 215-220: the inputs are no mapping, so the call
\* expression raises before run() is entered.
ProcessBadInputs(c) ==
  /\ pc[c] = "process"
  /\ LET a == Parsed(response[c]) IN
       /\ a.kind = "action"
       /\ FindPlugin(a.name) # 0
       /\ ~IsMapping(a.inputs)
       /\ Continue(c, PluginMessages(response[c],
                         PluginErrorText("argument after ** must be a mapping")))
  /\ UNCHANGED runLog

\* One entry of the run log: the plugin entered, the inputs it got, what it did.
RunEntry(plugin, inputs, result) ==
  [plugin |-> plugin.id, inputs |-> inputs, result |-> result]

\* Lines 172-187, 210-220: run() of a plugin that answers at once, by a text
\* or by raising.
ProcessRunSync(c) ==
  /\ pc[c] = "process"
  /\ LET a == Parsed(response[c]) IN
       /\ a.kind = "action"
       /\ FindPlugin(a.name) # 0
       /\ IsMapping(a.inputs)
       /\ ~plugins[FindPlugin(a.name)].coro
       /\ \E result \in PluginResults :
            /\ runLog' = [runLog EXCEPT ![c] =
                  Append(@, RunEntry(plugins[FindPlugin(a.name)], a.inputs, result))]
            /\ Continue(c, PluginMessages(response[c], PluginOutcomeText(result)))

\* ProcessRunAwait that does not await the coroutine: the loop goes on while
\* the plugin is still running.
ProcessRunAwaitDetached(c) ==
  /\ pc[c] = "process"
  /\ LET a == Parsed(response[c]) IN
       /\ a.kind = "action"
       /\ FindPlugin(a.name) # 0
       /\ IsMapping(a.inputs)
       /\ plugins[FindPlugin(a.name)].coro
       /\ runLog' = [runLog EXCEPT ![c] =
             Append(@, RunEntry(plugins[FindPlugin(a.name)], a.inputs, Pending))]
  /\ Continue(c, PluginMessages(response[c], PluginOutcomeText(Pending)))

\* Lines 172-175, 210-213: run() returns a coroutine and _run_plugin awaits it.
ProcessRunAwait(c) ==
  /\ pc[c] = "process"
  /\ LET a == Parsed(response[c]) IN
       /\ a.kind = "action"
       /\ FindPlugin(a.name) # 0
       /\ IsMapping(a.inputs)
       /\ plugins[FindPlugin(a.name)].coro
       /\ runLog' = [runLog EXCEPT ![c] =
             Append(@, RunEntry(plugins[FindPlugin(a.name)], a.inputs, Pending))]
  /\ pc' = [pc EXCEPT ![c] = "plugin"]
  /\ UNCHANGED <<bot, bot_config, loaded, probe, parsed, plugins, store,
                 messages, counter, finished, response, ret, err, writes,
                 llmCalls>>

\* Lines 213-220, 176-187: the awaited coroutine ends, by a text or by raising.
PluginAwaited(c) ==
  /\ pc[c] = "plugin"
  /\ \E result \in PluginResults :
       /\ runLog' = [runLog EXCEPT ![c][Len(runLog[c])].result = result]
       /\ Continue(c, PluginMessages(response[c], PluginOutcomeText(result)))

\* One step of the c-th say().
Step(c) ==
  \/ SayAddUserMessage(c)
  \/ IterateCapped(c)
  \/ IterateCallLlm(c)
  \/ IterateCallLlmRaises(c)
  \/ LlmReturns(c)
  \/ ProcessFinal(c)
  \/ ProcessMalformed(c)
  \/ ProcessNotFound(c)
  \/ ProcessBadInputs(c)
  \/ ProcessRunSync(c)
  \/ ProcessRunAwait(c)
  \/ PluginAwaited(c)

\* The caller serialises the say() calls: one starts when no other is running.
SaySerial(c) == Alone(c) /\ SayAssemble(c)

Next == \E c \in Calls : SaySerial(c) \/ Step(c)

Spec == Init /\ [][Next]_vars

\* A call that has started keeps being scheduled; the model and the plugins
\* answer.
FairSpec == Spec /\ \A c \in Calls : WF_vars(Step(c))

\* ------------------------------------------------- overlapping say() calls
\* The texts the model returns to overlapping calls: a final text, an action
\* for the plugin that answers at once, one for the plugin that is awaited,
\* a malformed action and an action whose inputs are no mapping.
ConcResponses == {
  <<"The answer is 4.">>,
  <<"Let me compute.", OPEN, NameTok("calculator"), InputsTok(DictInputs), CLOSE>>,
  <<OPEN, NL, NameTok("search"), InputsTok(DictInputs), CLOSE>>,
  <<OPEN, NameTok("calculator"), InputsTok(DictInputs)>>,
  <<OPEN, NameTok("calculator"), InputsTok(ListInputs), CLOSE>> }

\* Lines 300-303 for a call that overlaps another.
ConcLlmReturns(c) ==
  /\ pc[c] = "llm"
  /\ \E r \in ConcResponses : response' = [response EXCEPT ![c] = r]
  /\ pc' = [pc EXCEPT ![c] = "process"]
  /\ UNCHANGED <<bot, bot_config, loaded, probe, parsed, plugins, store,
                 messages, counter, finished, ret, err, writes, llmCalls,
                 runLog>>

\* One step of the c-th say() when calls overlap.
ConcStep(c) ==
  \/ SayAddUserMessage(c)
  \/ IterateCapped(c)
  \/ IterateCallLlm(c)
  \/ IterateCallLlmRaises(c)
  \/ ConcLlmReturns(c)
  \/ ProcessFinal(c)
  \/ ProcessMalformed(c)
  \/ ProcessNotFound(c)
  \/ ProcessBadInputs(c)
  \/ ProcessRunSync(c)
  \/ ProcessRunAwait(c)
  \/ PluginAwaited(c)

\* A call is between its start and its end.
Running(c) == pc[c] \notin {"idle", "done", "failed"}

\* say() starts while at most one other call is running: the event loop
\* interleaves two calls at their awaits.
SayOverlapping(c) ==
  /\ \E d \in Calls : \A e \in Calls \ {c, d} : ~Running(e)
  /\ SayAssemble(c)

ConcNext == \E c \in Calls : SayOverlapping(c) \/ ConcStep(c)

ConcSpec == Init /\ [][ConcNext]_vars

\* ------------------------------------------------- configuration round trip
\* The plugin classes the discriminated union knows.
PluginRegistry == {Calculator, Search, Calculator2, VisitURL}

\* Plugin.description
Description(p) == <<"description of ", p.id>>

\* p.dict(): the plugin's fields with the discriminator of its class.
PluginDict(p) ==
  [discriminator |-> p.id, name |-> p.name, description |-> Description(p)]

\* The plugins field parsing one dict of the list it is given: the class is
\* looked up by the discriminator and built from the fields.
ParsePlugin(d) ==
  LET cls == CHOOSE p \in PluginRegistry : p.id = d.discriminator
  IN Plugin(cls.id, d.name, cls.coro)

\* BotConfig(name=..., personality=..., instructions=..., plugins=...)
BotConfig(name, personality, instructions, plugs) ==
  [name |-> name, personality |-> personality, instructions |-> instructions,
   plugins |-> plugs]

\* Lines 93-100.
to_bot_config(self) ==
  BotConfig(self.name, self.personality, self.instructions,
            [i \in 1..Len(self.plugins) |-> PluginDict(self.plugins[i])])

\* from_bot_config passing on the name only.
from_bot_config_name_only(config) ==
  NewBot(Given(config.name), PyNone, PyNone, PyNone)

\* Lines 102-109.
from_bot_config(config) ==
  NewBot(Given(config.name), Given(config.personality),
         Given(config.instructions),
         Given([i \in 1..Len(config.plugins) |-> ParsePlugin(config.plugins[i])]))

\* The arguments agents are constructed with.
NameArgs == {PyNone, Given(""), Given("Ford")}
PersonalityArgs == {PyNone, Given(""), Given("Paranoid android")}
InstructionsArgs == {PyNone, Given(""), Given("Answer briefly.")}
PluginsArgs == {PyNone} \cup {Given(ps) : ps \in PluginSets}

\* An agent is constructed; no say() call is made on it.
ConfigInit ==
  /\ \E n \in NameArgs, p \in PersonalityArgs, i \in InstructionsArgs,
        ps \in PluginsArgs : bot = NewBot(n, p, i, ps)
  /\ plugins = bot.plugins
  /\ store = << >>
  /\ pc = [c \in Calls |-> "idle"]
  /\ messages = [c \in Calls |-> << >>]
  /\ counter = [c \in Calls |-> 0]
  /\ finished = [c \in Calls |-> FALSE]
  /\ response = [c \in Calls |-> << >>]
  /\ ret = [c \in Calls |-> NoMessage]
  /\ err = [c \in Calls |-> NoError]
  /\ writes = [c \in Calls |-> << >>]
  /\ llmCalls = [c \in Calls |-> 0]
  /\ runLog = [c \in Calls |-> << >>]
  /\ bot_config = PyNone
  /\ loaded = PyNone
  /\ probe = << >>
  /\ parsed = NoParse

\* save(), line 114: the agent is turned into its BotConfig.
ToBotConfig ==
  /\ bot_config = PyNone
  /\ bot_config' = to_bot_config(bot)
  /\ UNCHANGED <<sayVars, bot, loaded, probe, parsed>>

\* load(), line 123: an agent is built from the BotConfig.
FromBotConfig ==
  /\ bot_config # PyNone
  /\ loaded = PyNone
  /\ loaded' = from_bot_config(bot_config)
  /\ UNCHANGED <<sayVars, bot, bot_config, probe, parsed>>

ConfigNext == ToBotConfig \/ FromBotConfig

ConfigSpec == ConfigInit /\ [][ConfigNext]_vars

\* ----------------------------------------------------- the action parser
MaxChunks == 3

\* A complete action payload, on one line or over several.
Payloads == {
  <<OPEN, NameTok("calculator"), InputsTok(DictInputs), CLOSE>>,
  <<OPEN, NL, NameTok("search"), NL, InputsTok(DictInputs), NL, CLOSE>> }

\* The pieces responses are put together from: payloads, an opening that is
\* never closed, prose without and with a closing brace, a newline, a brace.
ProbeChunks ==
  Payloads \cup {<<OPEN, NameTok("calculator")>>, <<"Let me compute.">>,
                 <<BraceProse>>, <<NL>>, <<CLOSE>>}

\* The text made of the pieces.
ProbeText(chunks) == Join(chunks, << >>)

\* Lines 155-165 on one text: the span the pattern matches and the outcome.
Scan(text) == [span |-> PluginRegexSearch(text), outcome |-> ParseAction(text)]

\* No response has been handed to the parser.
ParserInit ==
  /\ plugins = << >>
  /\ store = << >>
  /\ pc = [c \in Calls |-> "idle"]
  /\ messages = [c \in Calls |-> << >>]
  /\ counter = [c \in Calls |-> 0]
  /\ finished = [c \in Calls |-> FALSE]
  /\ response = [c \in Calls |-> << >>]
  /\ ret = [c \in Calls |-> NoMessage]
  /\ err = [c \in Calls |-> NoError]
  /\ writes = [c \in Calls |-> << >>]
  /\ llmCalls = [c \in Calls |-> 0]
  /\ runLog = [c \in Calls |-> << >>]
  /\ bot = NewBot(PyNone, PyNone, PyNone, Given(plugins))
  /\ bot_config = PyNone
  /\ loaded = PyNone
  /\ probe = << >>
  /\ parsed = NoParse

\* The response grows by one piece and is scanned and decoded.
ParserFeed ==
  /\ Len(probe) < MaxChunks
  /\ \E chunk \in ProbeChunks :
       /\ probe' = Append(probe, chunk)
       /\ parsed' = Scan(ProbeText(probe'))
  /\ UNCHANGED <<sayVars, bot, bot_config, loaded>>

ParserNext == ParserFeed

ParserSpec == ParserInit /\ [][ParserNext]_vars

\* ------------------------------------------------------------------ claims
\* The user message of the c-th call.
UserMessage(c) == Message("user", UserText(c), Unset)

\* The c-th call took a step.
Moved(c) == pc'[c] # pc[c]

\* The last entry of a non-empty sequence.
Last(seq) == seq[Len(seq)]

\* The plugin-output message of the working list for a dispatcher text.
PluginOutputMessage(text) ==
  Message("system",
          <<"Plugin output: ">> \o text
          \o <<"\n\nNote: remember your personality when synthesizing a response.">>,
          Unset)

\* C1: a say() that completes has written to the History Store exactly twice,
\* the user message and then the final ai answer; an iteration that ran a
\* plugin or reported a malformed action writes nothing to the History Store.
C1_TwoWritesPerTurn ==
  /\ [](\A c \in Calls :
          pc[c] = "done" =>
            writes[c] = <<UserMessage(c), Message("ai", ret[c].content, Unset)>>)
  /\ [][\A c \in Calls :
          (pc[c] \in {"process", "plugin"} /\ pc'[c] \in {"loop", "plugin"})
            => (store' = store /\ writes'[c] = writes[c])]_vars

\* C1 witness: a turn that went through MaxIterations non-final iterations
\* and completed with two writes.
C1_Witness ==
  \E c \in Calls :
    /\ pc[c] = "done"
    /\ ret[c].content = MaxIterationsResponse
    /\ Len(writes[c]) = 2

\* C2: a response without the action pattern ends the turn in that iteration:
\* say() returns an ai Message with the full response as content, the History
\* Store has gained the user message and then the ai message, and the finished
\* call makes no further step (no model call, no plugin run).
C2_NoActionIsFinal ==
  /\ [][\A c \in Calls :
          (pc[c] = "process" /\ PluginRegexSearch(response[c]) = <<0, 0>> /\ Moved(c))
            => /\ pc'[c] = "done"
               /\ ret'[c].role = "ai"
               /\ ret'[c].content = response[c]
               /\ writes'[c] = <<UserMessage(c), Message("ai", response[c], Unset)>>
               /\ store' = Append(store, Message("ai", response[c], Unset))]_vars
  /\ [][\A c \in Calls :
          pc[c] = "done"
            => /\ pc'[c] = "done"
               /\ ret'[c] = ret[c]
               /\ llmCalls'[c] = llmCalls[c]
               /\ runLog'[c] = runLog[c]
               /\ writes'[c] = writes[c]]_vars

\* C2 witness: a call returned a text of the model that holds no action
\* pattern, although it holds an opening.
C2_Witness ==
  \E c \in Calls :
    /\ pc[c] = "done"
    /\ ret[c].content \in Responses
    /\ \E i \in 1..Len(ret[c].content) : ret[c].content[i] = OPEN
    /\ Last(store) = Message("ai", ret[c].content, Unset)

\* The response holds an action that decodes, names a configured plugin and
\* carries a mapping as inputs.
ValidAction(resp) ==
  LET a == ParseAction(resp) IN
    /\ a.kind = "action"
    /\ \E i \in 1..Len(plugins) : plugins[i].name = a.name
    /\ a.inputs = DictInputs

\* The working list of c grows by exactly the given messages.
Grows(c, new) == messages'[c] = messages[c] \o new

\* C3: an iteration whose response embeds a valid action for a configured
\* plugin enters a plugin of that name exactly once, with the parsed inputs;
\* when it ends, finished is false, the working list has grown by the ai
\* message with the raw text and a system plugin-output message, and the
\* History Store is as before.
C3_ValidActionRunsPlugin ==
  [][\A c \in Calls :
       LET a == ParseAction(response[c])
           endsWell ==
             /\ pc'[c] = "loop"
             /\ ~finished'[c]
             /\ Len(messages'[c]) = Len(messages[c]) + 2
             /\ SubSeq(messages'[c], 1, Len(messages[c]) + 1)
                  = Append(messages[c], Message("ai", response[c], Unset))
             /\ Last(messages'[c]).role = "system"
             /\ Last(messages'[c]).content[1] = "Plugin output: "
       IN
       /\ (pc[c] = "process" /\ ValidAction(response[c]) /\ Moved(c))
            => /\ Len(runLog'[c]) = Len(runLog[c]) + 1
               /\ SubSeq(runLog'[c], 1, Len(runLog[c])) = runLog[c]
               /\ Last(runLog'[c]).inputs = a.inputs
               /\ \E i \in 1..Len(plugins) :
                    /\ plugins[i].name = a.name
                    /\ plugins[i].id = Last(runLog'[c]).plugin
               /\ store' = store
               /\ \/ endsWell
                  \/ pc'[c] = "plugin" /\ messages'[c] = messages[c]
       /\ (pc[c] = "plugin" /\ Moved(c))
            => /\ Len(runLog'[c]) = Len(runLog[c])
               /\ store' = store
               /\ endsWell]_vars

\* C3 witness: an iteration ran a plugin that returned its text, and the loop
\* is about to iterate again.
C3_Witness ==
  \E c \in Calls :
    /\ pc[c] = "loop"
    /\ ~finished[c]
    /\ runLog[c] # << >>
    /\ ~Last(runLog[c]).result.raised
    /\ Last(messages[c]) = PluginOutputMessage(<<Last(runLog[c]).result.text>>)
    /\ messages[c][Len(messages[c]) - 1].role = "ai"

\* C4: an action naming a plugin X that is not configured enters no plugin,
\* feeds back exactly the text Plugin "X" not found. as the plugin output, and
\* the turn goes on with another iteration without failing.
C4_UnknownPluginNotFound ==
  [][\A c \in Calls :
       LET a == ParseAction(response[c]) IN
       (/\ pc[c] = "process"
        /\ a.kind = "action"
        /\ \A i \in 1..Len(plugins) : plugins[i].name # a.name
        /\ Moved(c))
         => /\ runLog'[c] = runLog[c]
            /\ Grows(c, << Message("ai", response[c], Unset),
                           PluginOutputMessage(
                             <<"Plugin \"" \o a.name \o "\" not found.">>) >>)
            /\ pc'[c] = "loop"
            /\ ~finished'[c]
            /\ err'[c] = NoError]_vars

\* C4 witness: the not-found text for the plugin "search" was fed back and no
\* plugin was entered.
C4_Witness ==
  \E c \in Calls :
    /\ pc[c] = "loop"
    /\ runLog[c] = << >>
    /\ Last(messages[c]) = PluginOutputMessage(<<"Plugin \"search\" not found.">>)

\* The response holds the action pattern, and the matched span does not decode
\* as JSON or decodes to an object without the key name or the key inputs.
MalformedAction(resp) ==
  /\ PluginRegexSearch(resp) # <<0, 0>>
  /\ LET js == JsonLoads(MatchGroup(resp)) IN
       \/ ~js.ok
       \/ "name" \notin DOMAIN js.obj
       \/ "inputs" \notin DOMAIN js.obj

\* C5: the dispatcher never fails outward.  When the plugin's run raised,
\* whether run answered at once or was awaited, and when the call itself
\* raised on inputs that are no mapping, the plugin output appended to the
\* working list is the text "Plugin encountered an error. Try again? Error
\* message: <error>", say() has not failed, and the loop goes on.
C5_PluginErrorsBecomeText ==
  [][\A c \in Calls :
       LET a == ParseAction(response[c])
           ranInto == pc'[c] = "loop" /\ runLog'[c] # << >>
                        /\ Last(runLog'[c]).result.raised
           errorFedBack(exc) ==
             /\ Grows(c, << Message("ai", response[c], Unset),
                            PluginOutputMessage(
                              <<"Plugin encountered an error. Try again? Error message: ",
                                exc>>) >>)
             /\ pc'[c] = "loop"
             /\ ~finished'[c]
             /\ err'[c] = NoError
       IN
       /\ (pc[c] = "process" /\ ValidAction(response[c]) /\ Moved(c) /\ ranInto)
            => errorFedBack(Last(runLog'[c]).result.text)
       /\ (pc[c] = "plugin" /\ Moved(c) /\ ranInto)
            => errorFedBack(Last(runLog'[c]).result.text)
       /\ (pc[c] \in {"process", "plugin"} /\ Moved(c)
             /\ (a.kind = "action" \/ pc[c] = "plugin"))
            => (pc'[c] \in {"loop", "plugin"} /\ err'[c] = NoError)
       /\ (/\ pc[c] = "process" /\ a.kind = "action" /\ Moved(c)
           /\ \E i \in 1..Len(plugins) : plugins[i].name = a.name
           /\ a.inputs # DictInputs)
            => \E exc \in {"argument after ** must be a mapping"} :
                 errorFedBack(exc)]_vars

\* C5 witness: in one turn a plugin that answers at once raised and an awaited
\* plugin raised, and the loop is about to iterate again.
C5_Witness ==
  \E c \in Calls :
    /\ pc[c] = "loop"
    /\ ~finished[c]
    /\ err[c] = NoError
    /\ \E i, j \in 1..Len(runLog[c]) :
         /\ runLog[c][i].plugin = Calculator.id /\ runLog[c][i].result.raised
         /\ runLog[c][j].plugin = Search.id /\ runLog[c][j].result.raised
    /\ Contains(Last(messages[c]).content,
                <<"Plugin encountered an error. Try again? Error message: ",
                  "division by zero">>)

\* C6: a response that holds the action pattern but whose payload does not
\* decode, or lacks the key name or the key inputs, enters no plugin, appends
\* exactly one message to the working list, a system message whose text
\* contains "Error running plugin", leaves the History Store as it is, raises
\* nothing, and the loop goes on.
C6_MalformedActionReported ==
  [][\A c \in Calls :
       (pc[c] = "process" /\ MalformedAction(response[c]) /\ Moved(c))
         => /\ runLog'[c] = runLog[c]
            /\ Len(messages'[c]) = Len(messages[c]) + 1
            /\ SubSeq(messages'[c], 1, Len(messages[c])) = messages[c]
            /\ Last(messages'[c]).role = "system"
            /\ Contains(Last(messages'[c]).content, <<"Error running plugin">>)
            /\ store' = store
            /\ err'[c] = NoError
            /\ pc'[c] = "loop"
            /\ ~finished'[c]]_vars

\* C6 witness: one turn reported a payload that does not decode and a payload
\* without the key inputs, and entered no plugin.
C6_Witness ==
  \E c \in Calls :
    /\ pc[c] = "loop"
    /\ runLog[c] = << >>
    /\ \E i, j \in 1..Len(messages[c]) :
         /\ messages[c][i] # PyNone /\ messages[c][j] # PyNone
         /\ messages[c][i].name = "plugin"
         /\ Last(messages[c][i].content) = "JSONDecodeError"
         /\ messages[c][j].name = "plugin"
         /\ Last(messages[c][j].content) = "'inputs'"

\* C7: the iteration in which the counter first exceeds the maximum calls no
\* model, takes the sentinel as the output, and is the last of the turn: the
\* call is done after it, no plugin is dispatched, and the answer returned and
\* persisted contains "Max iterations reached.".
C7_CapEndsTurn ==
  [][\A c \in Calls :
       /\ (pc[c] = "loop" /\ counter[c] + 1 > MaxIterations /\ Moved(c))
            => /\ llmCalls'[c] = llmCalls[c]
               /\ response'[c] = <<"Error: \"", "Max iterations reached.",
                                   " Please try again.\"">>
               /\ pc'[c] = "process"
               /\ counter'[c] = MaxIterations + 1
       /\ (pc[c] = "process" /\ counter[c] > MaxIterations /\ Moved(c))
            => /\ pc'[c] = "done"
               /\ finished'[c]
               /\ Contains(ret'[c].content, <<"Max iterations reached.">>)
               /\ Last(store').role = "ai"
               /\ Contains(Last(store').content, <<"Max iterations reached.">>)
               /\ Len(store') = Len(store) + 1]_vars

\* C7 witness: a call is done with the sentinel as its answer, persisted last.
C7_Witness ==
  \E c \in Calls :
    /\ pc[c] = "done"
    /\ Contains(ret[c].content, <<"Max iterations reached.">>)
    /\ Last(store).content = ret[c].content
    /\ Last(store).role = "ai"

\* C8: the iteration cap bounds every turn.  A say() that has started ends:
\* it is done, unless a call of the adapter raised instead of returning; and
\* it makes at most MaxIterations model calls and at most MaxIterations plugin
\* runs, whatever the model answers.
C8_CapBoundsTurn ==
  /\ [](\A c \in Calls :
          /\ llmCalls[c] <= MaxIterations
          /\ Len(runLog[c]) <= MaxIterations
          /\ counter[c] <= MaxIterations + 1)
  /\ \A c \in Calls : (pc[c] # "idle") ~> (pc[c] \in {"done", "failed"})

\* C8 witness: the capped iteration of a turn that made MaxIterations model
\* calls and MaxIterations plugin runs.
C8_Witness ==
  \E c \in Calls :
    /\ pc[c] = "process"
    /\ counter[c] = MaxIterations + 1
    /\ llmCalls[c] = MaxIterations
    /\ Len(runLog[c]) = MaxIterations

\* The entry of a working list is the plugin-overview message.
IsPluginOverview(m) ==
  /\ m # PyNone
  /\ m.role = "system"
  /\ m.content[1] = "You have access to plugins ... must be one of ["

\* C9: the assembled working list holds the plugin-overview message if and
\* only if the agent has plugins; without plugins it is exactly the identity
\* message, the bounded history and the user message.
C9_OverviewIffPlugins ==
  \A c \in Calls :
    pc[c] = "assembled" =>
      /\ (\E i \in 1..Len(messages[c]) : IsPluginOverview(messages[c][i]))
           <=> Len(plugins) > 0
      /\ Len(plugins) = 0 =>
           messages[c] = <<GetBotInstructions>> \o GetHistory \o <<UserMessage(c)>>

\* C10: say() fails only on a message of the working list whose role is none
\* of system, user, ai, found before the generation of that call; no step
\* that handles a plugin or a malformed action raises.
C10_OnlyUnknownRoleFails ==
  [][\A c \in Calls :
       /\ (pc'[c] = "failed" /\ Moved(c))
            => /\ pc[c] = "loop"
               /\ \E i \in 1..Len(messages[c]) :
                    messages[c][i] # PyNone /\ messages[c][i].role \notin Roles
               /\ err'[c] = "ValueError"
               /\ llmCalls[c] = counter[c]
       /\ (pc[c] \in {"process", "plugin"} /\ Moved(c))
            => (pc'[c] # "failed" /\ err'[c] = NoError)]_vars

\* The store holds what the c-th call has written, in the order it wrote it.
WritesInOrder(c) ==
  /\ Len(writes[c]) <= 2
  /\ Len(writes[c]) >= 1 => \E i \in 1..Len(store) : store[i] = writes[c][1]
  /\ Len(writes[c]) = 2 =>
       \E i, j \in 1..Len(store) :
         i < j /\ store[i] = writes[c][1] /\ store[j] = writes[c][2]

\* C11: say() takes no lock: a call can start whatever the calls before it
\* are doing, so the store writes of two overlapping calls interleave, each
\* call's own writes keeping their order; a call that starts while the last
\* store entry is the user message of a call still running reads that
\* unanswered message into its working list, directly before its own.
C11_NoLockInterleaves ==
  /\ [](\A c \in Calls :
          /\ (pc[c] = "idle" /\ InOrder(c)) => ENABLED SayAssemble(c)
          /\ WritesInOrder(c))
  /\ [][\A c, d \in Calls :
          (/\ c # d
           /\ Running(c)
           /\ store # << >>
           /\ Last(store) = UserMessage(c)
           /\ pc[d] = "idle"
           /\ pc'[d] = "assembled")
            => LET n == Len(messages'[d]) IN
                 /\ messages'[d][n] = UserMessage(d)
                 /\ messages'[d][n - 1] = UserMessage(c)]_vars

\* Two calls overlapped and the store reads user, user, ai, ai, the answer of
\* the later call before the answer of the earlier one.
C11_Witness ==
  \E c, d \in Calls :
    /\ c < d
    /\ pc[c] = "done"
    /\ pc[d] = "done"
    /\ Len(writes[c]) = 2
    /\ Len(writes[d]) = 2
    /\ store = <<UserMessage(c), UserMessage(d), writes[d][2], writes[c][2]>>

\* The names and descriptions of a plugin list.
Declared(ps) ==
  {[name |-> ps[i].name, description |-> Description(ps[i])] : i \in 1..Len(ps)}

C13_UserMessageStoredFirst ==
  \A c \in Calls :
    (pc[c] \in {"llm", "process", "plugin"} \/ llmCalls[c] > 0) =>
      /\ Len(writes[c]) >= 1
      /\ writes[c][1] = UserMessage(c)
      /\ \E i \in 1..Len(store) : store[i] = UserMessage(c)

\* The first model call of a turn is pending and the store ends with the
\* turn's user message.
C13_Witness ==
  \E c \in Calls :
    /\ pc[c] = "llm"
    /\ llmCalls[c] = 1
    /\ store # << >>
    /\ Last(store) = UserMessage(c)
    /\ writes[c] = <<UserMessage(c)>>

\* A plugin run of the c-th call has not returned.
PendingRuns(c) == {i \in 1..Len(runLog[c]) : runLog[c][i].result = Pending}

\* C14: the steps of a turn are strictly sequential. A model call begins only
\* from the loop head, with every plugin run of the turn returned and one
\* iteration counted per model call; its output goes to the parser and to
\* nothing else; one parse starts at most one plugin run; at most one plugin
\* run is pending, the latest, and only while the turn waits for it.
C14_StepsSequential ==
  /\ [](\A c \in Calls :
          /\ PendingRuns(c) # {} =>
                (pc[c] = "plugin" /\ PendingRuns(c) = {Len(runLog[c])})
          /\ pc[c] = "plugin" => PendingRuns(c) = {Len(runLog[c])}
          /\ Len(runLog[c]) <= llmCalls[c]
          /\ pc[c] = "llm" => Len(runLog[c]) < llmCalls[c])
  /\ [][\A c \in Calls :
          /\ (pc'[c] = "llm" /\ Moved(c)) =>
                /\ pc[c] = "loop"
                /\ llmCalls'[c] = llmCalls[c] + 1
                /\ llmCalls'[c] = counter'[c]
                /\ runLog'[c] = runLog[c]
          /\ (pc[c] = "llm" /\ Moved(c)) =>
                (pc'[c] = "process" /\ runLog'[c] = runLog[c])
          /\ (pc[c] = "process" /\ Moved(c)) =>
                /\ pc'[c] \in {"loop", "plugin", "done"}
                /\ llmCalls'[c] <= llmCalls[c]
                /\ (pc'[c] # "done") => Len(runLog'[c]) <= Len(runLog[c]) + 1
          /\ (pc[c] = "plugin" /\ Moved(c)) =>
                (pc'[c] = "loop" /\ Len(runLog'[c]) = Len(runLog[c]))]_vars

\* The second model call of a turn is pending after the awaited plugin run of
\* the first iteration returned.
C14_Witness ==
  \E c \in Calls :
    /\ pc[c] = "llm"
    /\ llmCalls[c] = 2
    /\ Len(runLog[c]) = 1
    /\ runLog[c][1].plugin = Search.id
    /\ runLog[c][1].result # Pending

\* C15: the iteration state belongs to one call. A step of one call leaves
\* the working list, the counter, the finished flag and the response of every
\* other call as they were, and what an iteration appends to the working
\* list it appends to the list of the call that made it.
C15_IterationStateOwned ==
  [][\A c \in Calls :
       Moved(c) =>
         /\ \A d \in Calls \ {c} :
              /\ messages'[d] = messages[d]
              /\ counter'[d] = counter[d]
              /\ finished'[d] = finished[d]
              /\ response'[d] = response[d]
         /\ (pc[c] \in {"process", "plugin"} /\ pc'[c] = "loop") =>
              /\ Len(messages'[c]) \in {Len(messages[c]) + 1, Len(messages[c]) + 2}
              /\ SubSeq(messages'[c], 1, Len(messages[c])) = messages[c]
              /\ Contains(messages'[c][Len(messages[c]) + 1].content,
                          response[c])]_vars

\* Two calls overlap; one is in its second iteration with a plugin output at
\* the end of its working list, the other in its first with none.
C15_Witness ==
  \E c, d \in Calls :
    /\ c # d
    /\ pc[c] = "llm"
    /\ pc[d] = "llm"
    /\ counter[c] = 2
    /\ counter[d] = 1
    /\ Last(messages[c]).role = "system"
    /\ Last(messages[d]) = UserMessage(d)

\* The positions of the action openings of a text.
Openings(text) == {i \in 1..Len(text) : text[i] = OPEN}

\* The positions of the lexemes of a text that end with a closing brace.
Closings(text) == {j \in 1..Len(text) : EndsWithBrace(text[j])}

Min(S) == CHOOSE a \in S : \A b \in S : a <= b
Max(S) == CHOOSE a \in S : \A b \in S : a >= b

\* C16: the parser's span is greedy: it runs from the first action opening
\* to the last closing brace of the response, newlines included. A response
\* with two complete payloads, or with a complete payload and a closing brace
\* in later text, is malformed and is no action; a response with an opening
\* and no later closing brace has no span and is the final answer.
C16_GreedySpan ==
  Len(probe) > 0 =>
    LET text == ProbeText(probe)
        later == IF Openings(text) = {} THEN {}
                 ELSE {j \in Closings(text) : j > Min(Openings(text))}
    IN /\ parsed.span = IF later = {} THEN <<0, 0>>
                        ELSE <<Min(Openings(text)), Max(later)>>
       /\ (\E i, j \in 1..Len(probe) :
             /\ i < j
             /\ probe[i] \in Payloads
             /\ probe[j] \in Payloads \cup {<<BraceProse>>, <<CLOSE>>})
            => parsed.outcome.kind = "error"
       /\ later = {} => parsed.outcome.kind = "none"

\* A complete payload over several lines was followed by prose with a closing
\* brace, and the parser called the response malformed.
C16_Witness ==
  /\ Len(probe) = 2
  /\ NL \in {probe[1][k] : k \in 1..Len(probe[1])}
  /\ probe[1] \in Payloads
  /\ probe[2] = <<BraceProse>>
  /\ parsed.span = <<1, Len(ProbeText(probe))>>
  /\ parsed.outcome.kind = "error"

\* The places of the plugin list that carry a name.
Carrying(name) == {i \in 1..Len(plugins) : plugins[i].name = name}

\* C17: when several plugins of the ordered plugin list carry the requested
\* name, the run an action starts is the run of the first of them, and the
\* action starts no other run.
C17_FirstMatchRuns ==
  [][\A c \in Calls :
       (pc[c] = "process" /\ Moved(c) /\ runLog'[c] # runLog[c] /\ pc'[c] # "done")
         => LET name == Parsed(response[c]).name IN
              /\ Carrying(name) # {}
              /\ Len(runLog'[c]) = Len(runLog[c]) + 1
              /\ SubSeq(runLog'[c], 1, Len(runLog[c])) = runLog[c]
              /\ Last(runLog'[c]).plugin = plugins[Min(Carrying(name))].id
              /\ \A d \in Calls \ {c} : runLog'[d] = runLog[d]]_vars

\* Two plugins carry the name "calculator"; the first of them has run and the
\* turn went on.
C17_Witness ==
  \E c \in Calls :
    /\ plugins = <<Calculator, Calculator2>>
    /\ Len(runLog[c]) = 1
    /\ runLog[c][1].plugin = Calculator.id
    /\ pc[c] = "loop"
    /\ Len(messages[c]) > 0
    /\ Last(messages[c]).role = "system"

\* The bounded history the c-th call read, when calls do not overlap: the
\* store without the user message the call has added since.
HistoryRead(c) == GetMessages(SubSeq(store, 1, Len(store) - 1), HistoryMaxTokens)

\* C18: for calls that do not overlap, the working list handed to a model
\* call holds the user message of the turn exactly once, directly after the
\* bounded history as it was before that message was stored.
C18_UserMessageOnceAfterHistory ==
  \A c \in Calls :
    pc[c] = "llm" =>
      LET H == HistoryRead(c) IN
        /\ Len(messages[c]) >= 3 + Len(H)
        /\ SubSeq(messages[c], 3, 2 + Len(H)) = H
        /\ messages[c][3 + Len(H)] = UserMessage(c)
        /\ Cardinality({i \in 1..Len(messages[c]) :
                          messages[c][i] = UserMessage(c)}) = 1

\* The model call of a later turn is pending; its working list holds the
\* earlier turn's user and ai messages, then its own user message.
C18_Witness ==
  \E c \in Calls :
    /\ c > 1
    /\ pc[c] = "llm"
    /\ Len(store) = 3
    /\ Len(messages[c]) = 5
    /\ messages[c][3] = UserMessage(c - 1)
    /\ messages[c][4].role = "ai"
    /\ messages[c][5] = UserMessage(c)

\* C19: a say() that fails with a propagated error does not roll the store
\* back: the store keeps the turn's user message, the turn has stored no ai
\* message and returned nothing, and the next turn reads the unanswered user
\* message into its working list, directly before its own.
C19_FailureKeepsUserMessage ==
  /\ [](\A c \in Calls :
          pc[c] = "failed" =>
            /\ err[c] # NoError
            /\ ret[c] = NoMessage
            /\ writes[c] = <<UserMessage(c)>>
            /\ \E i \in 1..Len(store) : store[i] = UserMessage(c))
  /\ [][\A c, d \in Calls :
          (/\ d = c + 1
           /\ pc[c] = "failed"
           /\ pc[d] = "idle"
           /\ pc'[d] = "assembled")
            => LET n == Len(messages'[d]) IN
                 /\ messages'[d][n] = UserMessage(d)
                 /\ messages'[d][n - 1] = UserMessage(c)]_vars

\* A call failed on the unknown role of a stored message; the store ends with
\* its user message and the next call has read it.
C19_Witness ==
  \E c, d \in Calls :
    /\ d = c + 1
    /\ pc[c] = "failed"
    /\ err[c] = "ValueError"
    /\ Last(store) = UserMessage(c)
    /\ pc[d] = "assembled"
    /\ messages[d][Len(messages[d]) - 1] = UserMessage(c)

\* The store was empty when the agent was constructed: it does not begin
\* with the messages of a non-empty initial store.
StartedEmpty ==
  \A s \in InitialStores \ {<< >>} :
    ~(Len(store) >= Len(s) /\ SubSeq(store, 1, Len(s)) = s)

\* The first k calls have returned and no later call has stored anything.
Completed(k) ==
  /\ \A c \in 1..k : pc[c] = "done"
  /\ \A c \in Calls \ (1..k) : pc[c] \in {"idle", "assembled"}

\* C20: after k completed calls that did not overlap, on an agent whose
\* store started empty, the store holds exactly 2k messages, user then ai for
\* each call in call order, and the content of the Message each call
\* returned is the content of its stored ai message.
C20_StoreAlternates ==
  \A k \in 0..NumCalls :
    (StartedEmpty /\ Completed(k)) =>
      /\ Len(store) = 2 * k
      /\ \A c \in 1..k :
           /\ store[2 * c - 1] = UserMessage(c)
           /\ store[2 * c].role = "ai"
           /\ ret[c].role = "ai"
           /\ store[2 * c].content = ret[c].content
           /\ writes[c] = <<store[2 * c - 1], store[2 * c]>>

\* Every call has returned, one of them with an answer of several lexemes,
\* and the store alternates user and ai.
C20_Witness ==
  /\ Completed(NumCalls)
  /\ Len(store) = 2 * NumCalls
  /\ \A c \in Calls : store[2 * c - 1].role = "user" /\ store[2 * c].role = "ai"
  /\ \E c \in Calls : Len(ret[c].content) > 1

====
